---- MODULE Spec2Model ----
(***************************************************************************)
(* Bounded-volume particle simulation of chem-game: the Bubbles and Foam   *)
(* instanced-particle components (core/fx/particles.tsx), the radius       *)
(* profile sampler they share, and the props LabScene hands them.          *)
(*                                                                         *)
(* Numbers.  The code computes in doubles; the model computes in fixed     *)
(* point.  Lengths are integers in units of 1e-5 m (0.004 m = 400), time   *)
(* steps are integers in units of 1/60 s, phases are integers in units of  *)
(* 1/3000 rad (so dt * 1.6 and dt * 1.2 are exact), fractions drawn by     *)
(* Math.random() and the values of Math.sin are integers in 1/1000.        *)
(* A product that does not fall on the grid is truncated toward zero.      *)
(* The guard 1e-6 of the code is 1/10 of a length unit and is kept exact   *)
(* by carrying the factor 10 in the quotient that uses it.                 *)
(***************************************************************************)
EXTENDS Integers, Sequences, FiniteSets, TLC

VARIABLES
    profile,     \* props.profile of both groups: [bottom, height, radii]
    bubblesOn,   \* props.enabled of <Bubbles>
    foamOn,      \* props.enabled of <Foam>
    bubbles,     \* Bubbles seedsRef.current
    foam,        \* Foam seedsRef.current
    bMesh,       \* Bubbles meshRef.current (the InstancedMesh)
    fMesh,       \* Foam meshRef.current
    frame,       \* number of frames rendered
    last,        \* the latest frame: the groups enabled in it, the indices recycled
    shrinkAge,   \* Bubbles updates since the profile shrank, -1 before
    ctx,         \* useLabStore's ctx (GameCtx)
    calls,       \* the calls of the store's actions, oldest first
    arg,         \* input of a pure function under test
    res          \* its result

vars == <<profile, bubblesOn, foamOn, bubbles, foam, bMesh, fMesh, frame,
          last, shrinkAge, ctx, calls, arg, res>>

simVars == <<profile, bubblesOn, foamOn, bubbles, foam, bMesh, fMesh, frame,
             last, shrinkAge, ctx, calls>>

----------------------------------------------------------------------------
(* Arithmetic *)

\* IEEE not-a-number, as produced by 0/0 or by reading past an array.
NaN == -1

Max(a, b) == IF a >= b THEN a ELSE b

Min(a, b) == IF a <= b THEN a ELSE b

Abs(a) == IF a >= 0 THEN a ELSE -a

\* a / b for b > 0, truncated toward zero
TDiv(a, b) == IF a >= 0 THEN a \div b ELSE -((-a) \div b)

\* THREE.MathUtils.clamp(value, min, max) = Math.max(min, Math.min(max, value))
clamp(value, lo, hi) == Max(lo, Min(hi, value))

\* THREE.MathUtils.lerp(x, y, t) = (1 - t) * x + t * y, t in 1/1000
lerp(x, y, t) == TDiv((1000 - t) * x + t * y, 1000)

RECURSIVE SqrtSearch(_, _, _)
\* least r in lo..hi with r * r >= n
SqrtSearch(n, lo, hi) ==
    IF lo >= hi THEN lo
    ELSE LET mid == (lo + hi) \div 2
         IN  IF mid * mid >= n THEN SqrtSearch(n, lo, mid)
                               ELSE SqrtSearch(n, mid + 1, hi)

\* Math.sqrt rounded up to the grid
CeilSqrt(n) == SqrtSearch(n, 0, 46340)

\* Math.sqrt rounded down to the grid
FloorSqrt(n) == LET r == CeilSqrt(n) IN IF r * r = n THEN r ELSE r - 1

\* Math.hypot(a, b), rounded up to the grid
hypot(a, b) == CeilSqrt(a * a + b * b)

\* Math.sqrt(u) for u in 1/1000, in 1/1000
sqrtMilli(u) == FloorSqrt(u * 1000)

TwoPi == 18850

Pi == 9425

\* Math.sin(phi) in 1/1000, phi in 1/3000 rad: Bhaskara's rational
\* approximation on a half period (absolute error below 0.002)
sin(phi) ==
    LET p == phi % TwoPi
        x == IF p >= Pi THEN p - Pi ELSE p
        q == x * (Pi - x)
        v == Min(1000, (4 * q) \div ((5 * Pi * Pi - 4 * q) \div 4000))
    IN  IF p >= Pi THEN -v ELSE v

\* Math.cos(phi) in 1/1000: the cosine that goes with sin(phi), so that
\* cos^2 + sin^2 <= 1 on the grid as it is in the reals
cos(phi) ==
    LET p == phi % TwoPi
        s == sin(phi)
        c == FloorSqrt(1000000 - s * s)
    IN  IF p * 2 > Pi /\ p * 2 < 3 * Pi THEN -c ELSE c

----------------------------------------------------------------------------
(* ProfileSampler *)

\* arr[i] of a JavaScript array, i counted from 0; undefined past the end
At(arr, i) == IF i >= 0 /\ i < Len(arr) THEN arr[i + 1] ELSE NaN

\* Faulty variants of sampleRadius; the properties of the sampler are
\* required to tell them from the code.
\* the last-index test is "i > n - 1"
sampleRadiusPastEnd(arr, yn, yd) ==
    LET n  == Len(arr)
        tn == clamp(yn, 0, yd) * (n - 1)
        i  == tn \div yd
        fn == tn % yd
    IN  IF n = 0 THEN [num |-> 0, reads |-> {}]
        ELSE IF i > n - 1 THEN [num |-> yd * At(arr, n - 1), reads |-> {n - 1}]
        ELSE [num |-> (yd - fn) * At(arr, i) + fn * At(arr, i + 1), reads |-> {i, i + 1}]

\* the sample below is returned, not interpolated
sampleRadiusStep(arr, yn, yd) ==
    LET n  == Len(arr)
        tn == clamp(yn, 0, yd) * (n - 1)
        i  == tn \div yd
    IN  IF n = 0 THEN [num |-> 0, reads |-> {}]
        ELSE [num |-> yd * At(arr, Min(i, n - 1)), reads |-> {Min(i, n - 1)}]

\* sampleRadius(profile, yNorm) with yNorm = yn / yd, yd > 0.
\* num is the result times yd (exact); reads are the indices of arr read.
sampleRadius(arr, yn, yd) ==
    LET n  == Len(arr)
        cn == clamp(yn, 0, yd)
        tn == cn * (n - 1)
        i  == tn \div yd
        fn == tn % yd
    IN  IF n = 0 THEN [num |-> 0, reads |-> {}]
        ELSE IF i >= n - 1
             THEN [num |-> yd * At(arr, n - 1), reads |-> {n - 1}]
             ELSE [num |-> (yd - fn) * At(arr, i) + fn * At(arr, i + 1),
                   reads |-> {i, i + 1}]

----------------------------------------------------------------------------
(* Bounds of the model *)

\* particles per group (props.count)
Count == 2

\* frames rendered in a behaviour of Spec
MaxFrames == 3

----------------------------------------------------------------------------
(* Props and their defaults *)

\* spawnBand = 0.18, in 1/100
spawnBand == 18

\* topFade = 0.22, in 1/100
topFade == 22

\* wallMarginFrac = 0.06, in 1/100
wallMarginFrac == 6

\* innerShrink = 0.004
innerShrink == 400

\* exitHeight = 0.15 (Foam)
exitHeight == 15000

\* the floor 0.0001 of a bubble's rendered size
minScale == 10

\* the size 0.003 below which a foam particle is recycled
minFoamSize == 300

\* liquidBottomY = -0.13 + 0.008 + 0.002
liquidBottomY == -12000

\* The profiles the groups are handed: the radii of the spawn-bounds
\* scenario over a tall and a short liquid column.
Profiles ==
    { [bottom |-> liquidBottomY, height |-> h, radii |-> <<0, 5000, 9000, 9000>>] :
        h \in {20000, 10000} }

\* center = [0, midY, 0] with midY = liquidBottomY + height / 2
centerY(prof) == prof.bottom + prof.height \div 2

\* ctx.activeEffects as the store can set it: [] and the rules' effectTags
EffectLists ==
    { {}, {"bubbles", "foam", "liquid"}, {"flame_na"}, {"foam", "smoke", "bubbles"} }

\* dt of a frame, in 1/60 s: a 60 Hz frame and a stalled one (2 s)
DtSet == {1, 120}

\* Math.random() draws of one bubble spawn, in 1/1000
BubbleDraws ==
    << [y |-> 0,   a |-> 0,   r |-> 0,   s |-> 0,   spd |-> 0,   phi |-> 0,   drift |-> 0],
       [y |-> 500, a |-> 125, r |-> 999, s |-> 999, spd |-> 500, phi |-> 250, drift |-> 999],
       [y |-> 999, a |-> 625, r |-> 500, s |-> 0,   spd |-> 999, phi |-> 750, drift |-> 0] >>

\* Math.random() draws of one foam spawn, in 1/1000
FoamDraws ==
    << [a |-> 0,   r |-> 0,   s |-> 0,   spd |-> 0,   growth |-> 0,   phi |-> 0,   drift |-> 0],
       [a |-> 375, r |-> 999, s |-> 999, spd |-> 999, growth |-> 999, phi |-> 500, drift |-> 999] >>

\* The runs of Math.random() the model draws from: seed i of a pass over
\* the seeds in I gets the draws (k + i) of the cycle, for some start k.
DrawRuns(draws, I) ==
    { [i \in I |-> draws[((k + i) % Len(draws)) + 1]] : k \in 0..(Len(draws) - 1) }

----------------------------------------------------------------------------
(* Shared by Bubbles and Foam *)

\* allowedRadiusAtLocal(yLocal): the wall radius at a LOCAL height.
\* yNorm = (yAbs - bottom) / Math.max(1e-6, H); 1e-6 is 1/10 unit.
allowedRadiusAtLocal(prof, yLocal) ==
    LET yAbs == centerY(prof) + yLocal
        H    == prof.height
        yn   == IF H >= 1 THEN yAbs - prof.bottom ELSE 10 * (yAbs - prof.bottom)
        yd   == IF H >= 1 THEN H ELSE 1
    IN  TDiv(sampleRadius(prof.radii, yn, yd).num, yd)

\* a point of the disk of radius rMax: angle a = u * 2 PI, radius
\* sqrt(u) * rMax (area-uniform)
diskPoint(da, dr, rMax) ==
    LET a == TDiv(da * TwoPi, 1000)
        r == TDiv(sqrtMilli(dr) * rMax, 1000)
    IN  [x |-> TDiv(cos(a) * r, 1000), z |-> TDiv(sin(a) * r, 1000)]

\* tx *= k * f / 100 with k = rAllowed / (rr + 1e-6)
pushIn(t, rAllowed, rr, f) ==
    TDiv(TDiv(t * rAllowed * 10, rr * 10 + 1) * f, 100)

\* meshRef.current before the instancedMesh is mounted
NoMesh == [mounted |-> FALSE, m |-> <<>>, log |-> <<>>]

\* an instance matrix nothing was written to
BlankMatrix == [s |-> 0, x |-> 0, y |-> 0, z |-> 0]

\* <instancedMesh args={[geometry, material, count]}> when it mounts
NewMesh(n) == [mounted |-> TRUE, m |-> [i \in 1..n |-> BlankMatrix], log |-> <<>>]

\* m.identity().makeScale(s, s, s).setPosition(x, y, z)
Matrix(s, x, y, z) == [s |-> s, x |-> x, y |-> y, z |-> z]

\* meshRef.current.setMatrixAt(i, m), i counted from 0
setMatrixAt(mesh, i, m) ==
    [mesh EXCEPT !.m[i + 1] = m, !.log = Append(@, i)]

----------------------------------------------------------------------------
(* Bubbles *)

\* Faulty variant of BubbleSeed: the wall margin is not subtracted
BubbleSeedNoMargin(prof, d) ==
    LET H           == prof.height
        localBottom == -(H \div 2)
        y0          == localBottom + TDiv(d.y * TDiv(H * spawnBand, 100), 1000)
        rLocal      == Max(0, allowedRadiusAtLocal(prof, y0) - innerShrink)
        xz          == diskPoint(d.a, d.r, rLocal)
    IN  [x     |-> xz.x,
         y     |-> y0,
         z     |-> xz.z,
         s     |-> lerp(TDiv(rLocal * 5, 100), TDiv(rLocal * 10, 100), d.s),
         spd   |-> TDiv(H * lerp(350, 650, d.spd), 1000),
         phi   |-> TDiv(d.phi * TwoPi, 1000),
         drift |-> TDiv(rLocal * lerp(10, 30, d.drift), 1000),
         baseY |-> y0]

\* one seed of seedsRef.current, from the draws d
BubbleSeed(prof, d) ==
    LET H           == prof.height
        localBottom == -(H \div 2)
        y0          == localBottom + TDiv(d.y * TDiv(H * spawnBand, 100), 1000)
        rLocal      == Max(0, allowedRadiusAtLocal(prof, y0) - innerShrink)
        margin      == TDiv(rLocal * wallMarginFrac, 100)
        xz          == diskPoint(d.a, d.r, Max(0, rLocal - margin))
    IN  [x     |-> xz.x,
         y     |-> y0,
         z     |-> xz.z,
         s     |-> lerp(TDiv(rLocal * 5, 100), TDiv(rLocal * 10, 100), d.s),
         spd   |-> TDiv(H * lerp(350, 650, d.spd), 1000),
         phi   |-> TDiv(d.phi * TwoPi, 1000),
         drift |-> TDiv(rLocal * lerp(10, 30, d.drift), 1000),
         baseY |-> y0]

\* fadeK = clamp((tNorm - fadeStart) / (1 - fadeStart), 0, 1) as num / den,
\* tNorm = (y - localBottom) / H, fadeStart = 1 - tf / 100.
\* x / 0 is +Infinity, -Infinity or NaN by the sign of x, and clamp
\* (Math.max of Math.min) keeps NaN.
fadeK(y, H, tf) ==
    LET tN  == y + H \div 2
        num == tN * 100 - (100 - tf) * H
        den == tf * H
        one == [nan |-> FALSE, num |-> 1, den |-> 1]
        nil == [nan |-> FALSE, num |-> 0, den |-> 1]
        bad == [nan |-> TRUE, num |-> 0, den |-> 1]
    IN  IF H = 0
        THEN (IF tN = 0 THEN bad ELSE IF tN > 0 THEN one ELSE nil)
        ELSE IF den = 0
        THEN (IF num = 0 THEN bad ELSE IF num > 0 THEN one ELSE nil)
        ELSE [nan |-> FALSE, num |-> clamp(num, 0, den), den |-> den]

\* s = Math.max(0.0001, p.s * (1 - fadeK)); Math.max keeps NaN
fadeSize(ps, y, H, tf) ==
    LET k == fadeK(y, H, tf)
    IN  IF k.nan THEN NaN
        ELSE Max(minScale, TDiv(ps * (k.den - k.num), k.den))

\* Faulty variant of contain: the allowed radius is not floored at 0
containNoFloor(p, y1, phi1, prof) ==
    LET tx0      == p.x + TDiv(sin(phi1) * p.drift, 1000)
        tz0      == p.z + TDiv(sin(TDiv(phi1 * 7, 10) + 3690) * p.drift, 1000)
        rLocal   == Max(0, allowedRadiusAtLocal(prof, y1) - innerShrink)
        rAllowed == rLocal - TDiv(rLocal * wallMarginFrac, 100) - TDiv(p.s * 6, 10)
        rr       == hypot(tx0, tz0)
    IN  IF rr > rAllowed
        THEN [tx    |-> pushIn(tx0, rAllowed, rr, 98),
              tz    |-> pushIn(tz0, rAllowed, rr, 98),
              drift |-> lerp(p.drift, TDiv(rLocal, 100), 200),
              pushed |-> TRUE]
        ELSE [tx    |-> tx0,
              tz    |-> tz0,
              drift |-> clamp(TDiv(p.drift * 101, 100), TDiv(rLocal, 100),
                              TDiv(rLocal * 3, 100)),
              pushed |-> FALSE]

\* Faulty variant of contain: the drift of a bubble that is not pushed in
\* grows by 1 % without the clamp
containNoCeiling(p, y1, phi1, prof) ==
    LET tx0      == p.x + TDiv(sin(phi1) * p.drift, 1000)
        tz0      == p.z + TDiv(sin(TDiv(phi1 * 7, 10) + 3690) * p.drift, 1000)
        rLocal   == Max(0, allowedRadiusAtLocal(prof, y1) - innerShrink)
        margin   == TDiv(rLocal * wallMarginFrac, 100) + TDiv(p.s * 6, 10)
        rAllowed == Max(0, rLocal - margin)
        rr       == hypot(tx0, tz0)
    IN  IF rr > rAllowed
        THEN [tx    |-> pushIn(tx0, rAllowed, rr, 98),
              tz    |-> pushIn(tz0, rAllowed, rr, 98),
              drift |-> lerp(p.drift, TDiv(rLocal, 100), 200),
              pushed |-> TRUE]
        ELSE [tx    |-> tx0,
              tz    |-> tz0,
              drift |-> TDiv(p.drift * 101, 100),
              pushed |-> FALSE]

\* the lateral offset (tx, tz) the frame emits for p after its rise to y1
\* and phase advance to phi1, and the drift it leaves
contain(p, y1, phi1, prof) ==
    LET tx0      == p.x + TDiv(sin(phi1) * p.drift, 1000)
        tz0      == p.z + TDiv(sin(TDiv(phi1 * 7, 10) + 3690) * p.drift, 1000)
        rLocal   == Max(0, allowedRadiusAtLocal(prof, y1) - innerShrink)
        margin   == TDiv(rLocal * wallMarginFrac, 100) + TDiv(p.s * 6, 10)
        rAllowed == Max(0, rLocal - margin)
        rr       == hypot(tx0, tz0)
    IN  IF rr > rAllowed
        THEN [tx    |-> pushIn(tx0, rAllowed, rr, 98),
              tz    |-> pushIn(tz0, rAllowed, rr, 98),
              drift |-> lerp(p.drift, TDiv(rLocal, 100), 200),
              pushed |-> TRUE]
        ELSE [tx    |-> tx0,
              tz    |-> tz0,
              drift |-> clamp(TDiv(p.drift * 101, 100), TDiv(rLocal, 100),
                              TDiv(rLocal * 3, 100)),
              pushed |-> FALSE]

\* Faulty variant of respawn: the wall margin m0 is not subtracted
respawnNoMargin(p, prof, d) ==
    LET H           == prof.height
        localBottom == -(H \div 2)
        y0          == localBottom + TDiv(d.y * TDiv(H * spawnBand, 100), 1000)
        r0          == Max(0, allowedRadiusAtLocal(prof, y0) - innerShrink)
        xz          == diskPoint(d.a, d.r, r0)
    IN  [p EXCEPT !.y = y0, !.baseY = y0, !.x = xz.x, !.z = xz.z,
                  !.phi = TDiv(d.phi * TwoPi, 1000),
                  !.drift = TDiv(r0 * lerp(10, 30, d.drift), 1000)]

\* recycle at top: a new height in the spawn band, a new lateral position,
\* phase and drift, from the draws d
respawn(p, prof, d) ==
    LET H           == prof.height
        localBottom == -(H \div 2)
        y0          == localBottom + TDiv(d.y * TDiv(H * spawnBand, 100), 1000)
        r0          == Max(0, allowedRadiusAtLocal(prof, y0) - innerShrink)
        m0          == TDiv(r0 * wallMarginFrac, 100)
        xz          == diskPoint(d.a, d.r, Max(0, r0 - m0))
    IN  [p EXCEPT !.y = y0, !.baseY = y0, !.x = xz.x, !.z = xz.z,
                  !.phi = TDiv(d.phi * TwoPi, 1000),
                  !.drift = TDiv(r0 * lerp(10, 30, d.drift), 1000)]

\* p.y after p.y += p.spd * dt
rise(p, dt) == p.y + TDiv(p.spd * dt, 60)

\* Faulty variant of BubbleStep: the matrix is set before the recycle
\* branch, with the height the bubble rose to
BubbleStepEmitsFirst(p, dt, prof, d) ==
    LET H        == prof.height
        y1       == rise(p, dt)
        phi1     == p.phi + 80 * dt
        c        == contain(p, y1, phi1, prof)
        p1       == [p EXCEPT !.y = y1, !.phi = phi1, !.drift = c.drift]
        rec      == y1 > H \div 2
    IN  [p   |-> IF rec THEN respawn(p1, prof, d) ELSE p1,
         m   |-> Matrix(fadeSize(p.s, y1, H, topFade), 0 + c.tx, centerY(prof) + y1, 0 + c.tz),
         rec |-> rec]

\* Faulty variant of BubbleStep: the contained offset is written back to
\* the seed's x and z
BubbleStepStoresOffset(p, dt, prof, d) ==
    LET H        == prof.height
        y1       == rise(p, dt)
        phi1     == p.phi + 80 * dt
        c        == contain(p, y1, phi1, prof)
        p1       == [p EXCEPT !.y = y1, !.phi = phi1, !.drift = c.drift,
                              !.x = c.tx, !.z = c.tz]
        rec      == y1 > H \div 2
        p2       == IF rec THEN respawn(p1, prof, d) ELSE p1
    IN  [p   |-> p2,
         m   |-> Matrix(fadeSize(p.s, y1, H, topFade), 0 + c.tx, centerY(prof) + p2.y, 0 + c.tz),
         rec |-> rec]

\* the body of the loop of Bubbles' useFrame for one seed: the seed it
\* leaves, the matrix it sets, and whether it took the recycle branch
BubbleStep(p, dt, prof, d) ==
    LET H        == prof.height
        localTop == H \div 2
        y1       == rise(p, dt)
        phi1     == p.phi + 80 * dt
        c        == contain(p, y1, phi1, prof)
        p1       == [p EXCEPT !.y = y1, !.phi = phi1, !.drift = c.drift]
        s        == fadeSize(p.s, y1, H, topFade)
        rec      == y1 > localTop
        p2       == IF rec THEN respawn(p1, prof, d) ELSE p1
    IN  [p   |-> p2,
         m   |-> Matrix(s, 0 + c.tx, centerY(prof) + p2.y, 0 + c.tz),
         rec |-> rec]

RECURSIVE BubblesLoopShared(_, _, _, _, _, _, _)
\* Faulty variant of BubblesLoop: the drift amplitude is one value shared
\* by the loop, so seed i steps with the drift seed i - 1 was left with
BubblesLoopShared(i, seeds, mesh, rec, dt, prof, draws) ==
    IF i >= Len(seeds) THEN [seeds |-> seeds, mesh |-> mesh, rec |-> rec]
    ELSE LET p  == IF i = 0 THEN seeds[1]
                   ELSE [seeds[i + 1] EXCEPT !.drift = seeds[i].drift]
             st == BubbleStep(p, dt, prof,
                              IF i \in DOMAIN draws THEN draws[i]
                              ELSE BubbleDraws[1])
         IN  BubblesLoopShared(i + 1,
                         [seeds EXCEPT ![i + 1] = st.p],
                         setMatrixAt(mesh, i, st.m),
                         IF st.rec THEN rec \cup {i} ELSE rec,
                         dt, prof, draws)

RECURSIVE BubblesLoopSkipsLast(_, _, _, _, _, _, _)
\* Faulty variant of BubblesLoop: the loop stops one seed short
BubblesLoopSkipsLast(i, seeds, mesh, rec, dt, prof, draws) ==
    IF i >= Len(seeds) - 1 THEN [seeds |-> seeds, mesh |-> mesh, rec |-> rec]
    ELSE LET st == BubbleStep(seeds[i + 1], dt, prof,
                              IF i \in DOMAIN draws THEN draws[i]
                              ELSE BubbleDraws[1])
         IN  BubblesLoopSkipsLast(i + 1,
                         [seeds EXCEPT ![i + 1] = st.p],
                         setMatrixAt(mesh, i, st.m),
                         IF st.rec THEN rec \cup {i} ELSE rec,
                         dt, prof, draws)

RECURSIVE BubblesLoop(_, _, _, _, _, _, _)
\* for (let i = 0; i < seeds.length; i++) { ... setMatrixAt(i, m) }
BubblesLoop(i, seeds, mesh, rec, dt, prof, draws) ==
    IF i >= Len(seeds) THEN [seeds |-> seeds, mesh |-> mesh, rec |-> rec]
    ELSE LET st == BubbleStep(seeds[i + 1], dt, prof,
                              IF i \in DOMAIN draws THEN draws[i]
                              ELSE BubbleDraws[1])
         IN  BubblesLoop(i + 1,
                         [seeds EXCEPT ![i + 1] = st.p],
                         setMatrixAt(mesh, i, st.m),
                         IF st.rec THEN rec \cup {i} ELSE rec,
                         dt, prof, draws)

\* Faulty variant of BubblesUseFrame: the early return is missing; the
\* seeds are stepped, the writes go to the mesh if there is one
BubblesUseFrameUnguarded(seeds, mesh, enabled, dt, prof, draws) ==
    LET out == BubblesLoop(0, seeds, NewMesh(Len(seeds)), {}, dt, prof, draws)
    IN  [out EXCEPT !.mesh = IF mesh.mounted THEN out.mesh ELSE mesh]

\* Bubbles' useFrame((_, dt) => ...)
BubblesUseFrame(seeds, mesh, enabled, dt, prof, draws) ==
    IF ~enabled \/ ~mesh.mounted
    THEN [seeds |-> seeds, mesh |-> mesh, rec |-> {}]
    ELSE BubblesLoop(0, seeds, [mesh EXCEPT !.log = <<>>], {}, dt, prof, draws)

\* the seeds that rise above the top in a frame of dt
BubblesRecycling(seeds, dt, prof) ==
    { i \in 0..(Len(seeds) - 1) : rise(seeds[i + 1], dt) > prof.height \div 2 }

----------------------------------------------------------------------------
(* Foam *)

\* Faulty variant of surfaceSpawn: the wall margin is not subtracted
surfaceSpawnNoMargin(p, prof, d) ==
    LET localTop == prof.height \div 2
        r0       == Max(0, allowedRadiusAtLocal(prof, localTop) - innerShrink)
        xz       == diskPoint(d.a, d.r, r0)
    IN  [p EXCEPT !.x = xz.x, !.z = xz.z, !.y = localTop, !.s = p.baseS,
                  !.phi = TDiv(d.phi * TwoPi, 1000)]

\* a fresh surface spawn: lateral position and phase, from the draws d
surfaceSpawn(p, prof, d) ==
    LET localTop == prof.height \div 2
        r0       == Max(0, allowedRadiusAtLocal(prof, localTop) - innerShrink)
        margin   == TDiv(r0 * wallMarginFrac, 100)
        xz       == diskPoint(d.a, d.r, Max(0, r0 - margin))
    IN  [p EXCEPT !.x = xz.x, !.z = xz.z, !.y = localTop, !.s = p.baseS,
                  !.phi = TDiv(d.phi * TwoPi, 1000)]

\* one seed of Foam's seedsRef.current, from the draws d
FoamSeed(prof, d) ==
    LET H        == prof.height
        localTop == H \div 2
        rLocal   == Max(0, allowedRadiusAtLocal(prof, localTop) - innerShrink)
        margin   == TDiv(rLocal * wallMarginFrac, 100)
        xz       == diskPoint(d.a, d.r, Max(0, rLocal - margin))
        baseS    == lerp(TDiv(rLocal * 6, 100), TDiv(rLocal * 11, 100), d.s)
    IN  [x      |-> xz.x,
         y      |-> localTop,
         z      |-> xz.z,
         s      |-> baseS,
         baseS  |-> baseS,
         spd    |-> TDiv(H * lerp(150, 350, d.spd), 1000),
         growth |-> lerp(TDiv(baseS * 15, 100), TDiv(baseS * 30, 100), d.growth),
         phi    |-> TDiv(d.phi * TwoPi, 1000),
         drift  |-> TDiv(rLocal * lerp(6, 20, d.drift), 1000)]

\* the lateral offset (tx, tz) a Foam frame emits for p after its rise to
\* y1, growth to s1 and phase advance to phi1
keepInside(p, y1, s1, phi1, prof) ==
    LET tx0      == p.x + TDiv(sin(phi1) * p.drift, 1000)
        tz0      == p.z + TDiv(sin(TDiv(phi1 * 7, 10) + 3690) * p.drift, 1000)
        rLocal   == Max(0, allowedRadiusAtLocal(prof, y1) - innerShrink)
        rAllowed == Max(0, rLocal - TDiv(rLocal * wallMarginFrac, 100) - TDiv(s1 * 6, 10))
        rr       == hypot(tx0, tz0)
    IN  IF y1 <= prof.height \div 2 /\ rr > rAllowed
        THEN [tx |-> pushIn(tx0, rAllowed, rr, 100), tz |-> pushIn(tz0, rAllowed, rr, 100)]
        ELSE [tx |-> tx0, tz |-> tz0]

\* the body of the loop of Foam's useFrame for one seed
FoamStep(p, dt, prof, d) ==
    LET localTop == prof.height \div 2
        recycleY == localTop + exitHeight
        y1       == p.y + TDiv(p.spd * dt, 60)
        s1       == p.s + TDiv(p.growth * dt, 60)
        phi1     == p.phi + 60 * dt
        c        == keepInside(p, y1, s1, phi1, prof)
        s2       == IF y1 <= localTop THEN s1 ELSE TDiv(s1 * 985, 1000)
        p1       == [p EXCEPT !.y = y1, !.s = s2, !.phi = phi1]
        rec      == y1 > recycleY \/ s2 < minFoamSize
        p2       == IF rec THEN surfaceSpawn(p1, prof, d) ELSE p1
    IN  [p   |-> p2,
         m   |-> Matrix(p2.s, 0 + c.tx, centerY(prof) + p2.y, 0 + c.tz),
         rec |-> rec]

RECURSIVE FoamLoop(_, _, _, _, _, _, _)
\* for (let i = 0; i < seeds.length; i++) { ... setMatrixAt(i, m) }
FoamLoop(i, seeds, mesh, rec, dt, prof, draws) ==
    IF i >= Len(seeds) THEN [seeds |-> seeds, mesh |-> mesh, rec |-> rec]
    ELSE LET st == FoamStep(seeds[i + 1], dt, prof,
                            IF i \in DOMAIN draws THEN draws[i]
                            ELSE FoamDraws[1])
         IN  FoamLoop(i + 1,
                      [seeds EXCEPT ![i + 1] = st.p],
                      setMatrixAt(mesh, i, st.m),
                      IF st.rec THEN rec \cup {i} ELSE rec,
                      dt, prof, draws)

\* Foam's useFrame((_, dt) => ...)
FoamUseFrame(seeds, mesh, enabled, dt, prof, draws) ==
    IF ~enabled \/ ~mesh.mounted
    THEN [seeds |-> seeds, mesh |-> mesh, rec |-> {}]
    ELSE FoamLoop(0, seeds, [mesh EXCEPT !.log = <<>>], {}, dt, prof, draws)

\* the seeds the recycle branch of a frame of dt takes
FoamRecycling(seeds, dt, prof) ==
    { i \in 0..(Len(seeds) - 1) :
        FoamStep(seeds[i + 1], dt, prof, FoamDraws[1]).rec }

\* useEffect(() => { if (enabled) seedsRef.current.forEach(respawn) }, [enabled])
FoamEnabledEffect(seeds, enabled, prof, draws) ==
    IF enabled
    THEN [i \in 1..Len(seeds) |-> surfaceSpawn(seeds[i], prof, draws[i - 1])]
    ELSE seeds

----------------------------------------------------------------------------
(* The scene: LabScene renders <Bubbles> and <Foam> inside <Flask> *)

Idle == <<>>

\* no frame was rendered yet
NoFrame == [bOn |-> FALSE, fOn |-> FALSE, bRec |-> {}, fRec |-> {}]

\* First render.  ctx.activeEffects is [], so both groups are disabled and
\* return null; each has seeded its pool from the profile it was handed.
FirstRender ==
    /\ bubblesOn = FALSE
    /\ foamOn = FALSE
    /\ \E d \in DrawRuns(BubbleDraws, 1..Count) :
           bubbles = [i \in 1..Count |-> BubbleSeed(profile, d[i])]
    /\ \E d \in DrawRuns(FoamDraws, 1..Count) :
           foam = [i \in 1..Count |-> FoamSeed(profile, d[i])]
    /\ bMesh = NoMesh
    /\ fMesh = NoMesh
    /\ frame = 0
    /\ last = NoFrame
    /\ shrinkAge = -1
    /\ arg = Idle
    /\ res = Idle

\* the store is not exercised: the effects it publishes are drawn from
\* EffectLists
NoStore == ctx = Idle /\ calls = <<>>

Init == profile \in Profiles /\ FirstRender /\ NoStore

\* the instancedMesh of a group after a render with enabled = on
Remount(mesh, was, on, n) ==
    IF on = was THEN mesh ELSE IF on THEN NewMesh(n) ELSE NoMesh

\* The store publishes activeEffects = e; LabScene re-renders with
\* enabled = e.includes('bubbles') / e.includes('foam'); Foam's effect on
\* [enabled] runs when its flag changed.
SetEffects(e) ==
    LET nb == "bubbles" \in e
        nf == "foam" \in e
    IN  /\ bubblesOn' = nb
        /\ foamOn' = nf
        /\ bMesh' = Remount(bMesh, bubblesOn, nb, Len(bubbles))
        /\ fMesh' = Remount(fMesh, foamOn, nf, Len(foam))
        /\ IF nf # foamOn
           THEN \E d \in DrawRuns(FoamDraws, 0..(Len(foam) - 1)) :
                    foam' = FoamEnabledEffect(foam, nf, profile, d)
           ELSE foam' = foam
        /\ UNCHANGED <<profile, bubbles, frame, last, shrinkAge, arg, res>>

\* The host loop calls every useFrame callback with the same dt.
UseFrames(dt) ==
    /\ \E bd \in DrawRuns(BubbleDraws,
                  IF bubblesOn THEN BubblesRecycling(bubbles, dt, profile) ELSE {}),
          fd \in DrawRuns(FoamDraws,
                  IF foamOn THEN FoamRecycling(foam, dt, profile) ELSE {}) :
         \E b \in {BubblesUseFrame(bubbles, bMesh, bubblesOn, dt, profile, bd)},
            f \in {FoamUseFrame(foam, fMesh, foamOn, dt, profile, fd)} :
               /\ bubbles' = b.seeds
               /\ bMesh' = b.mesh
               /\ foam' = f.seeds
               /\ fMesh' = f.mesh
               /\ last' = [bOn |-> bubblesOn, fOn |-> foamOn,
                           bRec |-> b.rec, fRec |-> f.rec]
    /\ UNCHANGED <<profile, bubblesOn, foamOn, ctx, calls, arg, res>>

\* One rendered frame.
FrameStep(dt) == UseFrames(dt) /\ frame' = frame + 1

\* a frame within the bound of the model
Frame(dt) == frame < MaxFrames /\ FrameStep(dt) /\ UNCHANGED shrinkAge

\* The fill changes: Flask hands both groups a new profile (and the center
\* derived from it).  The pools are kept: seedsRef is seeded once.
SwapStep(p) ==
    /\ p # profile
    /\ profile' = p
    /\ UNCHANGED <<bubblesOn, foamOn, bubbles, foam, bMesh, fMesh, frame, last,
                   ctx, calls, arg, res>>

Next ==
    \/ \E e \in EffectLists : SetEffects(e) /\ UNCHANGED <<ctx, calls>>
    \/ \E dt \in DtSet : Frame(dt)

Spec == Init /\ [][Next]_vars

\* ---------------------------------------------------------------------
\* sampleRadius as a pure function: the inputs are drawn in the initial
\* state, the action applies the function to both heights.

\* longest radii array drawn
MaxLen == 3

\* denominator of the heights drawn: yNorm = yn / YDen
YDen == 12

RadiusValues == {0, 4000, 9000}

RadiiSeqs == UNION { [1..n -> RadiusValues] : n \in 0..MaxLen }

\* heights from below 0 to above 1
YNums == (0 - 1)..(YDen + 1)

\* the scene variables while a pure function is exercised
Parked ==
    /\ profile = [bottom |-> liquidBottomY, height |-> 20000, radii |-> <<0, 5000, 9000, 9000>>]
    /\ bubblesOn = FALSE
    /\ foamOn = FALSE
    /\ bubbles = <<>>
    /\ foam = <<>>
    /\ bMesh = NoMesh
    /\ fMesh = NoMesh
    /\ frame = 0
    /\ last = NoFrame
    /\ shrinkAge = -1
    /\ NoStore

SamplerInit ==
    /\ Parked
    /\ arg \in [arr : RadiiSeqs, y1 : YNums, y2 : YNums]
    /\ res = Idle

CallSampleRadius ==
    /\ res = Idle
    /\ res' = [r1 |-> sampleRadius(arg.arr, arg.y1, YDen),
               r2 |-> sampleRadius(arg.arr, arg.y2, YDen)]
    /\ UNCHANGED <<arg, simVars>>

SamplerNext == CallSampleRadius

SamplerSpec == SamplerInit /\ [][SamplerNext]_vars

\* ---------------------------------------------------------------------
\* Properties of sampleRadius (SamplerSpec)

\* r is the reference interpolation of arr at yn / YDen: the clamped height
\* c lies in segment k = floor(t), t = c * (n - 1), and r is the lerp of
\* the two ends of that segment, or arr[n - 1] when k >= n - 1
IsReference(arr, yn, r) ==
    LET n  == Len(arr)
        c  == IF yn < 0 THEN 0 ELSE IF yn > YDen THEN YDen ELSE yn
        tn == c * (n - 1)
    IN  \E k \in 0..(n - 1) :
            /\ k * YDen <= tn
            /\ tn < (k + 1) * YDen
            /\ IF k >= n - 1
               THEN r.num = YDen * arr[n]
               ELSE /\ r.num = ((k + 1) * YDen - tn) * arr[k + 1] + (tn - k * YDen) * arr[k + 2]
                    /\ r.num >= YDen * Min(arr[k + 1], arr[k + 2])
                    /\ r.num <= YDen * Max(arr[k + 1], arr[k + 2])

SampledRight(arr, yn, r) ==
    IF Len(arr) = 0
    THEN r.num = 0 /\ r.reads = {}
    ELSE /\ r.reads \subseteq 0..(Len(arr) - 1)
         /\ yn <= 0 => r.num = YDen * arr[1]
         /\ yn >= YDen => r.num = YDen * arr[Len(arr)]
         /\ IsReference(arr, yn, r)

\* C7: sampleRadius is the reference piecewise-linear interpolation of the
\* radii at the height clamped to [0,1]: radii[0] at or below 0,
\* radii[n-1] at or above 1, 0 for an empty profile, between the two
\* adjacent samples elsewhere, and it reads no index outside 0..n-1.
C7_SampleRadiusIsReference ==
    res # Idle =>
        /\ SampledRight(arg.arr, arg.y1, res.r1)
        /\ SampledRight(arg.arr, arg.y2, res.r2)

\* an interior height strictly inside a sloped segment, and a height above 1
C7_Witness ==
    /\ res # Idle
    /\ Len(arg.arr) = 3
    /\ arg.y1 = 3
    /\ arg.arr[1] < arg.arr[2]
    /\ res.r1.num > YDen * arg.arr[1]
    /\ res.r1.num < YDen * arg.arr[2]
    /\ arg.y2 > YDen
    /\ res.r2.num = YDen * arg.arr[3]

\* the largest step between adjacent samples, 0 when there is none
MaxStep(arr) ==
    LET S == { Abs(arr[i + 1] - arr[i]) : i \in 1..(Len(arr) - 1) }
    IN  IF S = {} THEN 0 ELSE CHOOSE m \in S : \A x \in S : x <= m

\* C8: for any two heights y1, y2 the sampled radii differ by at most
\* |y1 - y2| * (n - 1) * max_i |radii[i+1] - radii[i]| (both sides are
\* multiplied by YDen here).
C8_SampleRadiusLipschitz ==
    res # Idle =>
        Abs(res.r1.num - res.r2.num)
            <= Abs(arg.y1 - arg.y2) * Max(0, Len(arg.arr) - 1) * MaxStep(arg.arr)

\* two heights on either side of a sample point with different radii
C8_Witness ==
    /\ res # Idle
    /\ Len(arg.arr) = 3
    /\ arg.y1 = 5
    /\ arg.y2 = 7
    /\ arg.arr[2] > arg.arr[1]
    /\ arg.arr[2] > arg.arr[3]
    /\ res.r1.num # res.r2.num

\* ---------------------------------------------------------------------
\* The fade of Bubbles' useFrame as a pure function of the base size, the
\* normalized height tNorm = tn / FadeGrid and the topFade prop.

\* steps of the grid of normalized heights
FadeGrid == 10

\* topFade values in percent, over the documented range 0..1
TopFades == {0, 22, 50, 100}

BaseSizes == {0, 135, 846}

FadeInit ==
    /\ Parked
    /\ arg \in [ps : BaseSizes, tn : 0..FadeGrid, tf : TopFades, H : {10000, 20000}]
    /\ res = Idle

\* the local height whose normalized height is tn / FadeGrid
HeightAt(tn, H) == (tn * H) \div FadeGrid - H \div 2

CallFade ==
    /\ res = Idle
    /\ res' = [k |-> fadeK(HeightAt(arg.tn, arg.H), arg.H, arg.tf),
               s |-> fadeSize(arg.ps, HeightAt(arg.tn, arg.H), arg.H, arg.tf)]
    /\ UNCHANGED <<arg, simVars>>

FadeNext == CallFade

FadeSpec == FadeInit /\ [][FadeNext]_vars

\* C6: for every topFade in [0,1] and every normalized height in [0,1] the
\* emitted size max(0.0001, baseSize * (1 - fadeK)) is a finite number
\* greater than 0, and fadeK is in [0,1].
C6_FadeFinitePositive ==
    res # Idle =>
        /\ ~res.k.nan
        /\ 0 <= res.k.num
        /\ res.k.num <= res.k.den
        /\ res.s # NaN
        /\ res.s > 0

\* ---------------------------------------------------------------------
\* Properties of the scene (Spec)

\* a step is a rendered frame
IsFrame == frame' = frame + 1

\* the radius bound of a spawn at local height y: the sampled radius less
\* innerShrink, floored at 0, less wallMarginFrac of it (in 1/100 units)
SpawnBound100(prof, y) ==
    Max(0, allowedRadiusAtLocal(prof, y) - innerShrink) * (100 - wallMarginFrac)

\* y is in the spawn band of the profile
InSpawnBand(prof, y) ==
    /\ y >= -(prof.height \div 2)
    /\ y * 100 <= -(prof.height \div 2) * 100 + spawnBand * prof.height

\* the largest radius of a profile
MaxRadius(prof) ==
    CHOOSE m \in {prof.radii[i] : i \in DOMAIN prof.radii} :
        \A i \in DOMAIN prof.radii : prof.radii[i] <= m

\* C9: every bubble created at construction has its local height in the
\* spawn band [localBottom, localBottom + spawnBand * H] and its lateral
\* radius hypot(x, z) between 0 and
\* max(0, sampledRadius(y0) - innerShrink) * (1 - wallMarginFrac), which is
\* at most maxRadius * (1 - wallMarginFrac).
C9_SpawnBounds ==
    frame = 0 =>
        \A i \in DOMAIN bubbles :
            /\ InSpawnBand(profile, bubbles[i].y)
            /\ bubbles[i].baseY = bubbles[i].y
            /\ hypot(bubbles[i].x, bubbles[i].z) >= 0
            /\ hypot(bubbles[i].x, bubbles[i].z) * 100 <= SpawnBound100(profile, bubbles[i].y)
            /\ SpawnBound100(profile, bubbles[i].y)
                   <= MaxRadius(profile) * (100 - wallMarginFrac)

\* a freshly built pool with a bubble off the axis, above the bottom
C9_Witness ==
    /\ frame = 0
    /\ \E i \in DOMAIN bubbles :
           /\ bubbles[i].y > -(profile.height \div 2)
           /\ hypot(bubbles[i].x, bubbles[i].z) > 1000
           /\ hypot(bubbles[i].x, bubbles[i].z) * 100 <= SpawnBound100(profile, bubbles[i].y)

\* C3: a frame callback that runs while its group is disabled changes no
\* field of any particle of the pool and writes no transform, for Bubbles
\* and for Foam.
C3_DisabledFrameNoOp ==
    [][IsFrame =>
         /\ ~bubblesOn => (bubbles' = bubbles /\ bMesh' = bMesh)
         /\ ~foamOn => (foam' = foam /\ fMesh' = fMesh)]_vars

\* a frame ran with both groups disabled, after a frame that had moved the pools
C3_Witness ==
    /\ frame >= 2
    /\ ~last.bOn
    /\ ~last.fOn
    /\ \E i \in DOMAIN bubbles : bubbles[i].y # bubbles[i].baseY
    /\ \E i \in DOMAIN foam : foam[i].y > profile.height \div 2

\* C4: after updates, disabling a group and enabling it again leaves every
\* particle of its pool as it was when the group was disabled, for Bubbles
\* and for Foam: neither toggle respawns a particle.  (The pool of a
\* disabled group whose latest frame ran enabled is the pool at the moment
\* of disabling.)
C4_TogglePreservesPool ==
    [][/\ (bubblesOn /\ ~bubblesOn') => bubbles' = bubbles
       /\ (last.bOn /\ ~bubblesOn /\ bubblesOn') => bubbles' = bubbles
       /\ (foamOn /\ ~foamOn') => foam' = foam
       /\ (last.fOn /\ ~foamOn /\ foamOn') => foam' = foam]_vars

\* the indices 0..n-1 in order
InOrder(n) == [i \in 1..n |-> i - 1]

AllowedRadius(prof, y, s) ==
    LET rLocal == Max(0, allowedRadiusAtLocal(prof, y) - innerShrink)
    IN  Max(0, rLocal - TDiv(rLocal * wallMarginFrac, 100) - TDiv(s * 6, 10))

\* transform i of the Bubbles mesh is laterally within the allowed radius
\* at the height it is emitted at
Contained(i) ==
    hypot(bMesh.m[i].x, bMesh.m[i].z)
        <= AllowedRadius(profile, bMesh.m[i].y - centerY(profile), bubbles[i].s)

\* C1: after every enabled Bubbles update, for every particle, the frame
\* that recycles it included, the lateral distance of the emitted offset
\* from the axis is at most the allowed radius at the emitted height.
C1_Containment ==
    [][(IsFrame /\ bubblesOn) => \A i \in DOMAIN bubbles : Contained(i)']_vars

\* C2 (as claimed): an update that moves a bubble above localTop reassigns
\* y into the spawn band and (x, z) to a point whose distance from the
\* axis is at most (sampledRadius(y) - innerShrink) * (1 - wallMarginFrac)
\* at the new height; no bubble has y > localTop after an update.
C2_RecycleClosureAsClaimed ==
    [][(IsFrame /\ bubblesOn) =>
         \A i \in DOMAIN bubbles :
            /\ bubbles'[i].y <= profile.height \div 2
            /\ (i - 1) \in last'.bRec =>
                 /\ \E dt \in DtSet : rise(bubbles[i], dt) > profile.height \div 2
                 /\ InSpawnBand(profile, bubbles'[i].y)
                 /\ hypot(bubbles'[i].x, bubbles'[i].z) * 100
                        <= (allowedRadiusAtLocal(profile, bubbles'[i].y) - innerShrink)
                               * (100 - wallMarginFrac)]_vars

\* C2 (amended): as claimed, with the bound
\* max(0, sampledRadius(y) - innerShrink) * (1 - wallMarginFrac); a bubble
\* that is not recycled keeps (x, z) and does not go above localTop, so a
\* bubble that left through the top is back in the spawn band, within the
\* bound, at the end of the same update.
C2_RecycleClosure ==
    [][(IsFrame /\ bubblesOn) =>
         \A i \in DOMAIN bubbles :
            /\ bubbles'[i].y <= profile.height \div 2
            /\ (i - 1) \in last'.bRec =>
                 /\ \E dt \in DtSet : rise(bubbles[i], dt) > profile.height \div 2
                 /\ InSpawnBand(profile, bubbles'[i].y)
                 /\ hypot(bubbles'[i].x, bubbles'[i].z) * 100
                        <= SpawnBound100(profile, bubbles'[i].y)
            /\ (i - 1) \notin last'.bRec =>
                 /\ \E dt \in DtSet : bubbles'[i].y = rise(bubbles[i], dt)
                 /\ bubbles'[i].x = bubbles[i].x
                 /\ bubbles'[i].z = bubbles[i].z]_vars

\* a frame recycled a bubble to a height where the sampled radius is below
\* innerShrink, and another to a point off the axis
C2_Witness ==
    /\ last.bOn
    /\ \E i \in DOMAIN bubbles :
           /\ (i - 1) \in last.bRec
           /\ allowedRadiusAtLocal(profile, bubbles[i].y) < innerShrink
    /\ \E i \in DOMAIN bubbles :
           /\ (i - 1) \in last.bRec
           /\ hypot(bubbles[i].x, bubbles[i].z) > 1000

\* ---------------------------------------------------------------------
\* The profile shrinks under a running scene: any history of Spec under
\* the tall profile, the replacement of the profile by the short one, then
\* Bubbles updates at dt = 1/60.

\* updates at dt = 1/60 that follow the replacement
ShrinkUpdates == 10

ShrinkInit == Init /\ profile.height = 20000

ShrinkSetEffects(e) == shrinkAge < 0 /\ SetEffects(e) /\ UNCHANGED <<ctx, calls>>

PreFrame(dt) == shrinkAge < 0 /\ Frame(dt)

Shrink(p) ==
    /\ shrinkAge < 0
    /\ p.height < profile.height
    /\ SwapStep(p)
    /\ shrinkAge' = 0

PostFrame ==
    /\ shrinkAge >= 0
    /\ shrinkAge < ShrinkUpdates
    /\ bubblesOn
    /\ FrameStep(1)
    /\ shrinkAge' = shrinkAge + 1

ShrinkNext ==
    \/ \E e \in EffectLists : ShrinkSetEffects(e)
    \/ \E dt \in DtSet : PreFrame(dt)
    \/ \E p \in Profiles : Shrink(p)
    \/ PostFrame

ShrinkSpec == ShrinkInit /\ [][ShrinkNext]_vars

\* transform i of the Bubbles mesh is inside the envelope of the current
\* profile: between its bottom and its top, within the allowed radius there
InEnvelope(i) ==
    /\ bMesh.m[i].y >= profile.bottom
    /\ bMesh.m[i].y <= profile.bottom + profile.height
    /\ Contained(i)

\* C5: when the profile is replaced by one of a smaller height span, then
\* after 10 further updates at dt = 1/60 every bubble's emitted position is
\* inside the new envelope.
C5_ShrinkReenters ==
    shrinkAge = ShrinkUpdates => \A i \in DOMAIN bubbles : InEnvelope(i)

\* ---------------------------------------------------------------------
\* The containment solver of both groups as a pure function of the
\* particle, the height it rose to and the profile.

\* a column that widens, one that pinches to a point at the top, and one
\* narrower than innerShrink
SolverProfiles ==
    { [bottom |-> liquidBottomY, height |-> 10000, radii |-> r] :
        r \in { <<0, 5000, 9000, 9000>>, <<9000, 4000, 0>>, <<300, 300>> } }

\* local heights from the bottom of the column to above its top
SolverHeights == {-5000, -4900, 0, 2500, 5000, 6000}

\* x, z, size and drift amplitude of the particle, and its phase
SolverSeeds ==
    [x : {0, 3000, -8000}, z : {0, 2000}, s : {0, 400, 9000}, drift : {0, 100, 250}]

SolverInit ==
    /\ Parked
    /\ arg \in [p : SolverSeeds, y : SolverHeights, phi : {0, 4712}, prof : SolverProfiles]
    /\ res = Idle

CallSolver ==
    /\ res = Idle
    /\ res' = [b |-> contain(arg.p, arg.y, arg.phi, arg.prof),
               f |-> keepInside(arg.p, arg.y, arg.p.s, arg.phi, arg.prof)]
    /\ UNCHANGED <<arg, simVars>>

SolverNext == CallSolver

SolverSpec == SolverInit /\ [][SolverNext]_vars

\* rLocal of the solver at the height of its input
SolverRLocal == Max(0, allowedRadiusAtLocal(arg.prof, arg.y) - innerShrink)

\* the allowed radius before it is floored at 0
RawAllowed ==
    SolverRLocal - TDiv(SolverRLocal * wallMarginFrac, 100) - TDiv(arg.p.s * 6, 10)

\* C11: when the allowed radius at the height the solver works at is <= 0
\* before the floor, the solver emits the lateral offset (0, 0), for a
\* bubble and for a foam particle inside the column, whether the particle
\* was off the axis or on it.
C11_DegenerateRadius ==
    (res # Idle /\ RawAllowed <= 0) =>
        /\ res.b.tx = 0 /\ res.b.tz = 0
        /\ arg.y <= arg.prof.height \div 2 => (res.f.tx = 0 /\ res.f.tz = 0)

\* a bubble off the axis at the point where the column pinches
C11_Witness ==
    /\ res # Idle
    /\ RawAllowed < 0
    /\ allowedRadiusAtLocal(arg.prof, arg.y) = 0
    /\ arg.p.x # 0
    /\ res.b.pushed
    /\ res.b.tx = 0
    /\ res.f.tx = 0

\* ---------------------------------------------------------------------
\* The scene over a liquid column of height span 0.

ZeroProfile == [bottom |-> liquidBottomY, height |-> 0, radii |-> <<5000, 9000>>]

ZeroInit == profile = ZeroProfile /\ FirstRender /\ NoStore

ZeroSpec == ZeroInit /\ [][Next]_vars

\* every transform of a mounted mesh that was written has a finite scale > 0
FiniteSizes(mesh) ==
    mesh.log # <<>> => \A i \in DOMAIN mesh.m : mesh.m[i].s # NaN /\ mesh.m[i].s > 0

\* C12: with a profile of height span 0, construction and every update
\* leave well-defined finite values: no emitted size is NaN.
C12_ZeroHeightFinite ==
    profile.height = 0 => (FiniteSizes(bMesh) /\ FiniteSizes(fMesh))

\* ---------------------------------------------------------------------
\* Construction of a Bubbles group as a function of its configuration.

\* count, and spawnBand, topFade, wallMarginFrac in percent: values inside
\* and outside their documented ranges
Configs ==
    [count : {-1, 0, 2}, spawnBand : {-50, 18, 150}, topFade : {-10, 22, 150},
     wallMarginFrac : {-50, 6, 150}, prof : Profiles]

\* one seed of seedsRef.current under the props of cfg, from the draws d
SeedOf(cfg, d) ==
    LET H           == cfg.prof.height
        localBottom == -(H \div 2)
        y0          == localBottom + TDiv(d.y * TDiv(H * cfg.spawnBand, 100), 1000)
        rLocal      == Max(0, allowedRadiusAtLocal(cfg.prof, y0) - innerShrink)
        margin      == TDiv(rLocal * cfg.wallMarginFrac, 100)
        xz          == diskPoint(d.a, d.r, Max(0, rLocal - margin))
    IN  [x     |-> xz.x,
         y     |-> y0,
         z     |-> xz.z,
         s     |-> lerp(TDiv(rLocal * 5, 100), TDiv(rLocal * 10, 100), d.s),
         spd   |-> TDiv(H * lerp(350, 650, d.spd), 1000),
         phi   |-> TDiv(d.phi * TwoPi, 1000),
         drift |-> TDiv(rLocal * lerp(10, 30, d.drift), 1000),
         baseY |-> y0]

\* The first render of <Bubbles {...cfg}>: the props are destructured with
\* their defaults and the seeds are built; new Array(count) throws a
\* RangeError for a negative count, nothing else examines the props.
Construct(cfg) ==
    IF cfg.count < 0
    THEN [thrown |-> "RangeError", seeds |-> <<>>]
    ELSE [thrown |-> "none",
          seeds  |-> [i \in 1..cfg.count |-> SeedOf(cfg, BubbleDraws[(i % Len(BubbleDraws)) + 1])]]

ConfigInit ==
    /\ Parked
    /\ arg \in Configs
    /\ res = Idle

CallConstruct ==
    /\ res = Idle
    /\ res' = Construct(arg)
    /\ UNCHANGED <<arg, simVars>>

ConfigNext == CallConstruct

ConfigSpec == ConfigInit /\ [][ConfigNext]_vars

\* the configuration is out of range
OutOfRange(cfg) ==
    \/ cfg.count < 0
    \/ cfg.spawnBand < 0 \/ cfg.spawnBand > 100
    \/ cfg.topFade < 0 \/ cfg.topFade > 100
    \/ cfg.wallMarginFrac < 0 \/ cfg.wallMarginFrac > 100

\* C13: constructing a group with an out-of-range configuration is rejected
\* with an error before any particle is seeded: no pool is built from it.
C13_ConfigRejected ==
    (res # Idle /\ OutOfRange(arg)) => (res.thrown # "none" /\ res.seeds = <<>>)

\* ---------------------------------------------------------------------
\* Particle independence: the pass of a frame against a pass that takes
\* the particles one by one in the opposite order, each from the pool the
\* frame started with and with the draws that are its own.

RECURSIVE BubblesDown(_, _, _, _, _, _)
\* the bubbles of `seeds`, stepped one by one from index i down to 0
BubblesDown(i, seeds, m, dt, prof, draws) ==
    IF i < 0 THEN [seeds |-> seeds, m |-> m]
    ELSE LET st == BubbleStep(seeds[i + 1], dt, prof,
                              IF i \in DOMAIN draws THEN draws[i]
                              ELSE BubbleDraws[1])
         IN  BubblesDown(i - 1, [seeds EXCEPT ![i + 1] = st.p],
                         [m EXCEPT ![i + 1] = st.m], dt, prof, draws)

RECURSIVE FoamDown(_, _, _, _, _, _)
\* the foam particles of `seeds`, stepped one by one from index i down to 0
FoamDown(i, seeds, m, dt, prof, draws) ==
    IF i < 0 THEN [seeds |-> seeds, m |-> m]
    ELSE LET st == FoamStep(seeds[i + 1], dt, prof,
                            IF i \in DOMAIN draws THEN draws[i]
                            ELSE FoamDraws[1])
         IN  FoamDown(i - 1, [seeds EXCEPT ![i + 1] = st.p],
                      [m EXCEPT ![i + 1] = st.m], dt, prof, draws)

\* C14: within one update the new state and the transform of particle i
\* depend only on particle i's state before the update, dt, the profile and
\* its own draws: taking the particles in the opposite order gives the same
\* pool and the same transforms.
C14_ParticleIndependence ==
    [][IsFrame =>
         \E dt \in DtSet :
            /\ bubblesOn =>
                 \E bd \in DrawRuns(BubbleDraws, BubblesRecycling(bubbles, dt, profile)) :
                    LET dn == BubblesDown(Len(bubbles) - 1, bubbles, bMesh.m, dt, profile, bd)
                    IN  /\ bubbles' = dn.seeds
                        /\ bMesh'.m = dn.m
            /\ foamOn =>
                 \E fd \in DrawRuns(FoamDraws, FoamRecycling(foam, dt, profile)) :
                    LET dn == FoamDown(Len(foam) - 1, foam, fMesh.m, dt, profile, fd)
                    IN  /\ foam' = dn.seeds
                        /\ fMesh'.m = dn.m]_vars

\* a frame with both groups enabled stepped two bubbles that differ, and
\* recycled the first of them only, and one foam particle only
C14_Witness ==
    /\ last.bOn
    /\ last.fOn
    /\ last.bRec = {0}
    /\ Cardinality(last.fRec) = 1
    /\ bubbles[1] # bubbles[2]
    /\ bMesh.m[1] # bMesh.m[2]

\* ---------------------------------------------------------------------
(* The reaction engine (core/reactions/engine) and its data *)

\* a JavaScript null / undefined
null == [tag |-> "null"]

undefined == [tag |-> "undefined"]

\* reactionDB: the rules, with the fields of the outcome the store reads
reactionDB ==
    << [id |-> "vinegar_soda",
        inputs |-> <<"vinegar", "baking_soda">>,
        conditions |-> undefined,
        outcome |-> [products |-> <<"salt_acetate", "water">>,
                     effectTags |-> <<"bubbles", "foam", "liquid">>,
                     score |-> 100]],
       [id |-> "flame_na",
        inputs |-> <<"salt_na", "flame">>,
        conditions |-> [temperature |-> "undefined", flame |-> "true"],
        outcome |-> [products |-> <<"salt_na">>,
                     effectTags |-> <<"flame_na">>,
                     score |-> 120]],
       [id |-> "h2o2_catalytic_foam",
        inputs |-> <<"hydrogen_peroxide", "catalyst_mn02">>,
        conditions |-> undefined,
        outcome |-> [products |-> <<"water", "oxygen">>,
                     effectTags |-> <<"foam", "smoke", "bubbles">>,
                     score |-> 200]] >>

\* The reagent ids of the model in the order of JavaScript's a < b on
\* strings: the ids of reactionDB, and one id (ReagentId = string) that
\* holds the characters normalize joins with.
SortedIds ==
    << "baking_soda", "baking_soda:1+vinegar", "catalyst_mn02", "flame",
       "hydrogen_peroxide", "salt_na", "vinegar" >>

\* how many times id occurs in inputs (counts.get(id))
CountOf(inputs, id) == Cardinality({ i \in DOMAIN inputs : inputs[i] = id })

RECURSIVE join(_, _)
\* Array.prototype.join(sep) of an array of strings
join(strs, sep) ==
    IF strs = <<>> THEN ""
    ELSE IF Len(strs) = 1 THEN strs[1]
    ELSE strs[1] \o sep \o join(Tail(strs), sep)

\* normalize(inputs): the entries of the counts map, sorted by id, each
\* printed as `${id}:${n}`, joined by '+'
normalize(inputs) ==
    LET ids == SelectSeq(SortedIds, LAMBDA id : CountOf(inputs, id) > 0)
    IN  join([k \in DOMAIN ids |-> ids[k] \o ":" \o ToString(CountOf(inputs, ids[k]))],
             "+")

\* sameInputs(a, b)
sameInputs(a, b) == normalize(a) = normalize(b)

\* matchConditions(rule, opts)
matchConditions(rule, opts) ==
    LET c == rule.conditions
    IN  IF c = undefined THEN TRUE
        ELSE IF c.temperature # "undefined"
                /\ (IF opts.temperature = "undefined" THEN "room" ELSE opts.temperature)
                       # c.temperature
             THEN FALSE
        ELSE IF c.flame \in {"true", "false"}
                /\ (IF opts.flame = "undefined" THEN "false" ELSE opts.flame) # c.flame
             THEN FALSE
        ELSE TRUE

\* findRule(inputs, opts): the first rule of reactionDB that matches
findRule(inputs, opts) ==
    LET hits == { k \in DOMAIN reactionDB :
                    sameInputs(reactionDB[k].inputs, inputs)
                    /\ matchConditions(reactionDB[k], opts) }
    IN  IF hits = {} THEN null
        ELSE reactionDB[CHOOSE k \in hits : \A j \in hits : k <= j]

\* react(inputs, opts)
react(inputs, opts) ==
    LET rule == findRule(inputs, opts)
    IN  IF rule = null THEN null ELSE rule.outcome

\* opts = {} (the default of findRule and react)
NoOpts == [temperature |-> "undefined", flame |-> "undefined"]

\* ---------------------------------------------------------------------
\* findRule and react as pure functions: the inputs and the options are
\* drawn in the initial state and the call is one step.

\* longest input list
MaxInputs == 3

\* the input lists: every list of at most MaxInputs reagent ids
InputLists ==
    UNION { [1..n -> { SortedIds[k] : k \in DOMAIN SortedIds }] : n \in 0..MaxInputs }

\* the options of a call: none, or a flame present or absent
OptsSet == [temperature : {"undefined"}, flame : {"undefined", "true", "false"}]

EngineInit ==
    /\ Parked
    /\ arg \in [inputs : InputLists, opts : OptsSet]
    /\ res = Idle

CallReact ==
    /\ res = Idle
    /\ res' = [rule |-> findRule(arg.inputs, arg.opts),
               outcome |-> react(arg.inputs, arg.opts)]
    /\ UNCHANGED <<arg, simVars>>

EngineNext == CallReact

EngineSpec == EngineInit /\ [][EngineNext]_vars

\* a and b hold the same ids the same number of times
SameMultiset(a, b) ==
    /\ Len(a) = Len(b)
    /\ \A i \in DOMAIN a :
           Cardinality({ j \in DOMAIN a : a[j] = a[i] })
               = Cardinality({ j \in DOMAIN b : b[j] = a[i] })

\* C15: findRule and react match a rule exactly when the inputs equal the
\* rule's inputs as multisets (whatever their order, and not with a
\* duplicate or an extra reagent); react returns null when no rule does.
C15_MatchIsMultisetEquality ==
    res # Idle =>
        /\ \A k \in DOMAIN reactionDB :
               (res.rule = reactionDB[k] /\ res.outcome = reactionDB[k].outcome)
                   <=> SameMultiset(arg.inputs, reactionDB[k].inputs)
        /\ (\A k \in DOMAIN reactionDB : ~SameMultiset(arg.inputs, reactionDB[k].inputs))
               => res.outcome = null

\* ---------------------------------------------------------------------
(* The store (state/useLabStore) under the buttons of SimpleHUD *)

\* store calls in a behaviour of StoreSpec
MaxCalls == 5

\* the ctx the store is created with
InitialCtx ==
    [levelId       |-> "demo",
     vessels       |-> << [id |-> "main-flask", substances |-> <<>>] >>,
     activeEffects |-> <<>>,
     score         |-> 0,
     timeElapsed   |-> 0]

\* Array.prototype.includes
includes(arr, x) == \E i \in DOMAIN arr : arr[i] = x

\* addReagent(vesselId, ...) gets past `if (!vessel) return` to set({ ctx })
addReagentSets(c, vesselId) == \E k \in DOMAIN c.vessels : c.vessels[k].id = vesselId

\* Faulty variant of addReagent: without the vessel the effects are cleared
addReagentClears(c, vesselId, reagentId) ==
    LET found == { k \in DOMAIN c.vessels : c.vessels[k].id = vesselId }
    IN  IF found = {} THEN [c EXCEPT !.activeEffects = <<>>]
        ELSE LET k        == CHOOSE i \in found : \A j \in found : i <= j
                 vessel   == c.vessels[k]
                 subs     == Append(vessel.substances, [id |-> reagentId, volume |-> 10])
                 inputIds == [i \in DOMAIN subs |-> subs[i].id]
                 r        == react(inputIds, NoOpts)
                 outcome  == IF r = null THEN undefined ELSE r
             IN  [c EXCEPT !.vessels[k] = [id |-> vessel.id, substances |-> subs,
                                           lastOutcome |-> outcome],
                           !.activeEffects = IF outcome = undefined THEN <<>>
                                             ELSE outcome.effectTags]

\* the ctx addReagent(vesselId, reagentId) sets, from the ctx c.  The copy
\* of ctx is shallow: the vessel that is written is the one of c.
addReagent(c, vesselId, reagentId) ==
    LET found == { k \in DOMAIN c.vessels : c.vessels[k].id = vesselId }
    IN  IF found = {} THEN c
        ELSE LET k        == CHOOSE i \in found : \A j \in found : i <= j
                 vessel   == c.vessels[k]
                 subs     == Append(vessel.substances, [id |-> reagentId, volume |-> 10])
                 inputIds == [i \in DOMAIN subs |-> subs[i].id]
                 r        == react(inputIds, NoOpts)
                 outcome  == IF r = null THEN undefined ELSE r
             IN  [c EXCEPT !.vessels[k] = [id |-> vessel.id, substances |-> subs,
                                           lastOutcome |-> outcome],
                           !.activeEffects = IF outcome = undefined THEN <<>>
                                             ELSE outcome.effectTags]

\* Faulty variant of reset: the vessels are kept, the rest is cleared
resetKeepsVessels ==
    [ctx EXCEPT !.activeEffects = <<>>, !.score = 0, !.timeElapsed = 0]

\* the ctx reset() sets
reset ==
    [levelId       |-> "demo",
     vessels       |-> << [id |-> "main-flask", substances |-> <<>>] >>,
     activeEffects |-> <<>>,
     score         |-> 0,
     timeElapsed   |-> 0]

\* the reagents SimpleHUD has a button for
HudReagents == {"vinegar", "baking_soda", "salt_na", "flame"}

\* The store is created and LabScene renders for the first time (the fill
\* of the flask is fixed, so there is one profile).
StoreInit ==
    /\ profile \in { p \in Profiles : p.height = 20000 }
    /\ FirstRender
    /\ ctx = InitialCtx
    /\ calls = <<>>

\* what LabScene's selector reads, as the set SetEffects takes
Published(c) == { c.activeEffects[i] : i \in DOMAIN c.activeEffects }

\* onClick={() => add('main-flask', reagentId)}: the store sets the new ctx
\* and LabScene renders with its activeEffects
AddReagent(vesselId, reagentId) ==
    /\ Len(calls) < MaxCalls
    /\ \E c \in {addReagent(ctx, vesselId, reagentId)} :
          /\ ctx' = c
          /\ SetEffects(Published(c))
    /\ calls' = Append(calls, [op |-> "addReagent", vesselId |-> vesselId,
                               reagentId |-> reagentId,
                               set |-> addReagentSets(ctx, vesselId)])

\* onClick={reset}
Reset ==
    /\ Len(calls) < MaxCalls
    /\ ctx' = reset
    /\ SetEffects(Published(reset))
    /\ calls' = Append(calls, [op |-> "reset"])

StoreNext ==
    \/ \E r \in HudReagents : AddReagent("main-flask", r)
    \/ Reset

StoreSpec == StoreInit /\ [][StoreNext]_vars

RECURSIVE SinceReset(_)
\* the reagents added to the vessel since the latest reset, oldest first
SinceReset(log) ==
    IF log = <<>> THEN <<>>
    ELSE LET c == log[Len(log)]
         IN  IF c.op = "reset" THEN <<>>
             ELSE Append(SinceReset(SubSeq(log, 1, Len(log) - 1)), c.reagentId)

\* the effectTags of the rule whose inputs are `ids` as a multiset, [] if
\* there is none
TagsOf(ids) ==
    LET hits == { k \in DOMAIN reactionDB : SameMultiset(ids, reactionDB[k].inputs) }
    IN  IF hits = {} THEN <<>>
        ELSE reactionDB[CHOOSE k \in hits : TRUE].outcome.effectTags

\* C16: after any sequence of addReagent and reset, ctx.activeEffects is the
\* effectTags of the rule whose inputs equal, as a multiset, the substances
\* added since the latest reset, and [] when there is no such rule; Bubbles
\* and Foam are enabled exactly when those tags name them.
C16_EffectsTrackVessel ==
    ctx # Idle =>
        LET tags == TagsOf(SinceReset(calls))
        IN  /\ ctx.activeEffects = tags
            /\ bubblesOn <=> includes(tags, "bubbles")
            /\ foamOn <=> includes(tags, "foam")

RECURSIVE Replay(_, _)
\* the ctx of a store that starts with c and is told to add the reagents
\* `ids` to the main flask, one after the other
Replay(c, ids) ==
    IF ids = <<>> THEN c
    ELSE Replay(addReagent(c, "main-flask", Head(ids)), Tail(ids))

\* the latest call is a reset
JustReset == calls # <<>> /\ calls[Len(calls)].op = "reset"

\* C17: reset restores the initial context from any reachable state: one
\* vessel 'main-flask' with no substances and no lastOutcome, activeEffects
\* [], score 0, timeElapsed 0; and the calls of addReagent that follow leave
\* the activeEffects they leave on a store that was just created.
C17_ResetRestoresInitial ==
    [][calls' # calls =>
         /\ JustReset' =>
               /\ Len(ctx'.vessels) = 1
               /\ ctx'.vessels[1].id = "main-flask"
               /\ ctx'.vessels[1].substances = <<>>
               /\ "lastOutcome" \notin DOMAIN ctx'.vessels[1]
               /\ ctx'.activeEffects = <<>>
               /\ ctx'.score = 0
               /\ ctx'.timeElapsed = 0
         /\ ctx'.activeEffects
                = Replay(InitialCtx, SinceReset(calls')).activeEffects]_vars

\* the vessel held a mixture with effects, the store was reset, and the
\* mixture added again has its effects again
C17_Witness ==
    /\ Len(calls) = 5
    /\ calls[3].op = "reset"
    /\ TagsOf(SinceReset(SubSeq(calls, 1, 2))) # <<>>
    /\ Len(ctx.vessels[1].substances) = 2
    /\ ctx.activeEffects # <<>>
    /\ bubblesOn

\* ---------------------------------------------------------------------
\* The particle lifecycle under frames that keep coming: the groups are
\* enabled once and the host loop renders frame after frame.  Of the frame
\* counter the parity is kept (the counter has no bound).

\* dt of these frames, in 1/60 s: 2 s, and the 10 s of a tab that was in
\* the background
LiveDts == {120, 600}

\* the first render, with the tall column
LiveInit == Init /\ profile.height = 20000

\* the store publishes effects that enable both groups
Enable ==
    /\ ~bubblesOn
    /\ \E e \in EffectLists : "bubbles" \in e /\ "foam" \in e /\ SetEffects(e)
    /\ UNCHANGED <<ctx, calls>>

\* a frame with both groups enabled
LiveFrame(dt) ==
    /\ bubblesOn
    /\ foamOn
    /\ UseFrames(dt)
    /\ frame' = (frame + 1) % 2
    /\ UNCHANGED shrinkAge

LiveFrames == \E dt \in LiveDts : LiveFrame(dt)

LiveNext ==
    \/ Enable
    \/ LiveFrames

\* The effects are switched on, and requestAnimationFrame keeps calling the
\* frame callbacks: a frame is always possible once the groups are enabled,
\* so weak fairness of LiveFrames is that frames of either parity recur.
LiveSpec ==
    /\ LiveInit
    /\ [][LiveNext]_vars
    /\ WF_vars(Enable)
    /\ []<>(frame = 0)
    /\ []<>(frame = 1)

\* C18: with a height span above 0 and enabled updates that keep occurring
\* (dt at least 2 s here), every bubble is recycled again and again, and
\* so is every foam particle: no particle stays un-recycled for ever.
C18_RecycledInfinitelyOften ==
    \A i \in 0..(Count - 1) :
        /\ []<>(i \in last.bRec)
        /\ []<>(i \in last.fRec)

\* a frame recycled one bubble and left the other rising, above the height
\* it was seeded in
C18_Witness ==
    /\ profile.height > 0
    /\ last.bOn
    /\ last.fOn
    /\ Cardinality(last.bRec) = 1
    /\ \E i \in DOMAIN bubbles :
           (i - 1) \notin last.bRec /\ ~InSpawnBand(profile, bubbles[i].y)

\* ---------------------------------------------------------------------
\* The order of a bubble's states

\* C19: a bubble goes Rising -> FadingNearTop -> Recycled -> Rising for any
\* positive dt: an update that recycles a bubble follows an update of that
\* bubble that emitted it with a fade factor above 0 and did not recycle
\* it; a bubble is never recycled directly after an update in which its
\* fade factor was 0 (or in which it was recycled).
C19_FadesBeforeRecycle ==
    [][(IsFrame /\ bubblesOn /\ last.bOn /\ profile.height > 0) =>
         \A i \in DOMAIN bubbles :
            (i - 1) \in last'.bRec =>
                /\ (i - 1) \notin last.bRec
                /\ fadeK(bubbles[i].y, profile.height, topFade).num > 0]_vars

\* ---------------------------------------------------------------------
\* Drift adaptation of the bubble solver (under SolverSpec)

\* the floor 0.01 * rLocal and the ceiling 0.03 * rLocal of the drift
\* amplitude at the height of the solver's input
DriftFloor == TDiv(SolverRLocal, 100)

DriftCeiling == TDiv(SolverRLocal * 3, 100)

\* the drift amplitude lies between a and b
Between(v, a, b) == Min(a, b) <= v /\ v <= Max(a, b)

\* C20 as claimed: a bubble that is pushed in gets a drift amplitude
\* between its old one and the floor; a bubble that is not pushed in gets
\* one that is not below its old one and lies within [floor, ceiling].
C20_DriftAdaptationAsClaimed ==
    res # Idle =>
        IF res.b.pushed
        THEN Between(res.b.drift, arg.p.drift, DriftFloor)
        ELSE /\ res.b.drift >= arg.p.drift
             /\ Between(res.b.drift, DriftFloor, DriftCeiling)

\* C20: a bubble that is pushed in gets a drift amplitude between its old
\* one and the floor 0.01 * rLocal; a bubble that is not pushed in gets one
\* within [0.01 * rLocal, 0.03 * rLocal], which is not below its old one
\* unless the old one was above the ceiling at the current height (then it
\* is the ceiling).
C20_DriftAdaptation ==
    res # Idle =>
        IF res.b.pushed
        THEN Between(res.b.drift, arg.p.drift, DriftFloor)
        ELSE /\ Between(res.b.drift, DriftFloor, DriftCeiling)
             /\ IF arg.p.drift > DriftCeiling
                THEN res.b.drift = DriftCeiling
                ELSE res.b.drift >= arg.p.drift

\* a bubble near the axis, not pushed in, where the column has narrowed:
\* its drift amplitude comes down to the ceiling of that height
C20_Witness ==
    /\ res # Idle
    /\ ~res.b.pushed
    /\ DriftCeiling > 0
    /\ arg.p.drift > DriftCeiling
    /\ res.b.drift = DriftCeiling
    /\ res.b.drift < arg.p.drift

\* ---------------------------------------------------------------------
\* The frame of an update of Bubbles

\* C21: an enabled update that does not recycle a bubble changes only its
\* y, phase and drift amplitude: the stored x and z, the rise speed and the
\* size are as they were (containment alters the emitted offset only); the
\* rise speed and the size are also kept by an update that recycles it.
C21_UpdateFrame ==
    [][(IsFrame /\ bubblesOn) =>
         \A i \in DOMAIN bubbles :
            /\ bubbles'[i].spd = bubbles[i].spd
            /\ bubbles'[i].s = bubbles[i].s
            /\ (i - 1) \notin last'.bRec =>
                   [bubbles'[i] EXCEPT !.y = bubbles[i].y, !.phi = bubbles[i].phi,
                                       !.drift = bubbles[i].drift] = bubbles[i]]_vars

\* a frame pushed a bubble in (the emitted x is not the stored one) without
\* recycling it, and recycled the other bubble
C21_Witness ==
    /\ last.bOn
    /\ Cardinality(last.bRec) = 1
    /\ \E i \in DOMAIN bubbles :
           /\ (i - 1) \notin last.bRec
           /\ bubbles[i].x # 0
           /\ bMesh.m[i].x # bubbles[i].x
           /\ Abs(bMesh.m[i].x) < Abs(bubbles[i].x)

\* ---------------------------------------------------------------------
\* Foam over columns whose surface is wide, and pinched to a point

FoamProfiles ==
    { [bottom |-> liquidBottomY, height |-> 20000, radii |-> <<0, 5000, 9000, 9000>>],
      [bottom |-> liquidBottomY, height |-> 10000, radii |-> <<9000, 4000, 0>>] }

FoamInit == profile \in FoamProfiles /\ FirstRender /\ NoStore

FoamSpec == FoamInit /\ [][Next]_vars

\* the foam particle p is where an update leaves it: at or above the
\* surface, at most exitHeight above it
InFoamEnvelope(p) ==
    /\ p.y >= profile.height \div 2
    /\ p.y <= profile.height \div 2 + exitHeight

C23_FoamGrowsInFreeRise ==
    [][(IsFrame /\ foamOn) =>
         \A i \in DOMAIN foam :
            ((i - 1) \notin last'.fRec
                /\ foam'[i].y > profile.height \div 2
                /\ foam'[i].y <= profile.height \div 2 + exitHeight)
              => foam'[i].s >= foam[i].s]_vars

\* ---------------------------------------------------------------------
\* The store under calls that name a vessel it has, and one it has not

VesselIds == {"main-flask", "beaker"}

VesselNext ==
    \/ \E v \in VesselIds, r \in {"vinegar", "baking_soda"} : AddReagent(v, r)
    \/ Reset

VesselSpec == StoreInit /\ [][VesselNext]_vars

\* the latest call is an addReagent that names a vessel ctx does not have
UnknownVessel ==
    /\ calls # <<>>
    /\ calls[Len(calls)].op = "addReagent"
    /\ \A k \in DOMAIN ctx.vessels : ctx.vessels[k].id # calls[Len(calls)].vesselId

\* C24: addReagent with a vessel id that is not in ctx.vessels is a no-op:
\* ctx is unchanged, no state update is published, and nothing the scene
\* renders from the store changes.
C24_UnknownVesselNoOp ==
    [][(calls' # calls /\ UnknownVessel') =>
         /\ ctx' = ctx
         /\ ~calls'[Len(calls')].set
         /\ UNCHANGED <<bubblesOn, foamOn, bubbles, foam, bMesh, fMesh>>]_vars

\* the vessel held the mixture with effects when a call named a vessel the
\* store does not have, and the effects are still on
C24_Witness ==
    /\ UnknownVessel
    /\ Len(ctx.vessels[1].substances) = 2
    /\ ctx.activeEffects # <<>>
    /\ bubblesOn
    /\ foamOn

\* C25: from a fresh or reset store, adding 'salt_na' and 'flame' to the
\* main flask, in either order, makes the rule flame_na match:
\* ctx.activeEffects contains 'flame_na' and the vessel's lastOutcome is the
\* outcome of that rule.
C25_FlameTest ==
    SameMultiset(SinceReset(calls), <<"salt_na", "flame">>) =>
        /\ includes(ctx.activeEffects, "flame_na")
        /\ ctx.vessels[1].lastOutcome = reactionDB[2].outcome

\* ---------------------------------------------------------------------
\* Heights of one Bubbles update, in each Bubbles implementation of the
\* repository, for a container center that is an input of its own
\* ---------------------------------------------------------------------

\* the three Bubbles components: core/fx/particles.tsx, the Bubbles next to
\* Foam, and the earlier Bubbles that stores world heights
Implementations == {"particles", "withFoam", "worldY"}

\* numerator of yNorm = (yAbs - profile.bottom) / max(1e-6, H); the
\* denominator is H
yNorm(prof, yAbs) == yAbs - prof.bottom

\* particles.tsx and the Bubbles next to Foam: p.y is a LOCAL offset from
\* centerY; allowedRadiusAtLocal(p.y) samples at yAbs = centerY + p.y and
\* setPosition emits centerY + p.y; the local range is [-H/2, H/2]
LocalHeights(cY, p, dt, prof) ==
    LET H           == prof.height
        localBottom == 0 - H \div 2
        localTop    == H \div 2
        y1          == rise(p, dt)
    IN  [recycled |-> y1 > localTop,
         sampled  |-> cY + y1,
         emitted  |-> cY + y1,
         lo       |-> yNorm(prof, cY + localBottom),
         hi       |-> yNorm(prof, cY + localTop)]

\* the earlier Bubbles: p.y is seeded from bottom = profile.bottom and
\* recycled above top = cy + H/2; allowedRadiusAt(p.y) samples at p.y and
\* setPosition emits cy + p.y
WorldHeights(cy, p, dt, prof) ==
    LET H      == prof.height
        top    == cy + H \div 2
        bottom == prof.bottom
        y1     == rise(p, dt)
    IN  [recycled |-> y1 > top,
         sampled  |-> y1,
         emitted  |-> cy + y1,
         lo       |-> yNorm(prof, bottom),
         hi       |-> yNorm(prof, top)]

Heights(impl, cY, p, dt, prof) ==
    IF impl = "worldY" THEN WorldHeights(cY, p, dt, prof)
    ELSE LocalHeights(cY, p, dt, prof)

\* a seed at t percent of the column, as each implementation stores it, with
\* the slowest or the fastest rise speed: H * lerp(0.35, 0.65, u) for a
\* local height, 0.06 + u * 0.06 for a world height
HeightSeed(impl, t, u, prof) ==
    LET H == prof.height
    IN  IF impl = "worldY"
        THEN [y   |-> prof.bottom + TDiv(H * t, 100),
              spd |-> 6000 + TDiv(u * 6000, 1000)]
        ELSE [y   |-> (0 - H \div 2) + TDiv(H * t, 100),
              spd |-> TDiv(H * lerp(350, 650, u), 1000)]

\* container centers: the origin (the default prop), the center of the
\* liquid column (what Flask hands over), and one off the column's center
CenterOf(c, prof) ==
    CASE c = "origin" -> 0
      [] c = "column" -> centerY(prof)
      [] OTHER        -> centerY(prof) + 3000

HeightInit ==
    /\ Parked
    /\ arg \in [impl : Implementations, c : {"origin", "column", "off"},
                t : {0, 18, 50, 99}, u : {0, 1000}, dt : DtSet, prof : Profiles]
    /\ res = Idle

CallHeights ==
    /\ res = Idle
    /\ res' = Heights(arg.impl, CenterOf(arg.c, arg.prof),
                       HeightSeed(arg.impl, arg.t, arg.u, arg.prof),
                       arg.dt, arg.prof)
    /\ UNCHANGED <<arg, simVars>>

HeightNext == CallHeights

HeightSpec == HeightInit /\ [][HeightNext]_vars

\* C26: in every Bubbles implementation, for every update in which the
\* bubble is not recycled and for any container center, the absolute height
\* at which the wall radius is sampled equals the absolute height at which
\* the transform is emitted; with the container centered on the liquid
\* column, the bottom of the bubble's range maps to normalized height 0 and
\* the top to 1.
C26_SampledIsRendered ==
    (res # Idle /\ ~res.recycled) =>
        /\ res.sampled = res.emitted
        /\ arg.c = "column" => (res.lo = 0 /\ res.hi = arg.prof.height)

\* ---------------------------------------------------------------------
\* Flask: the LiquidBounds computed from the fill prop and handed to the
\* particle groups
\* ---------------------------------------------------------------------

\* number of fill values tried, 0.05 apart, from -0.1 upwards
FillSteps == 30

\* fill in 1/1000
Fills == { 50 * k - 100 : k \in 0..FillSteps }

\* const samples = 32
samples == 32

\* the glass profile of scenes/components/Flask.tsx, h = 0.26, y0 = -h / 2
steps ==
    << [y |-> -13000, r |-> 0],    [y |-> -12200, r |-> 6000],
       [y |-> -10000, r |-> 7500], [y |-> -5000,  r |-> 9000],
       [y |-> 0,      r |-> 6500], [y |-> 5000,   r |-> 4500],
       [y |-> 10000,  r |-> 3500], [y |-> 11000,  r |-> 3600],
       [y |-> 13000,  r |-> 0] >>

\* the glass profile of the other Flask component
stepsFromBase ==
    << [y |-> 0,     r |-> 0],    [y |-> 400,   r |-> 3000],
       [y |-> 800,   r |-> 6000], [y |-> 3000,  r |-> 7500],
       [y |-> 8000,  r |-> 9000], [y |-> 13000, r |-> 6500],
       [y |-> 18000, r |-> 4500], [y |-> 23000, r |-> 3500],
       [y |-> 24000, r |-> 3600], [y |-> 26000, r |-> 3800] >>

\* interpRadius(points, y): linear in the first segment that holds y,
\* else the radius of the nearest end
interpRadius(points, y) ==
    LET n    == Len(points)
        hits == { i \in 1..(n - 1) : y >= points[i].y /\ y <= points[i + 1].y }
    IN  IF hits # {}
        THEN LET i == CHOOSE j \in hits : \A k \in hits : j <= k
                 a == points[i]
                 b == points[i + 1]
                 d == b.y - a.y
                 t == IF d >= 1 THEN TDiv((y - a.y) * 1000, d)
                      ELSE (y - a.y) * 10000
             IN  lerp(a.r, b.r, t)
        ELSE IF y < points[1].y THEN points[1].r ELSE points[n].r

\* radii sampled along the liquid column, bottom -> top
columnRadii(points, bottom, height, shrink) ==
    [ k \in 1..(samples + 1) |->
        Max(0, interpRadius(points, bottom + TDiv(height * (k - 1), samples)) - shrink) ]

\* Flask.tsx: f = clamp(fill), liquidBottomY = steps[1].y + 0.002,
\* liquidTopY = y0 + h * f * 0.88, height = liquidTopY - liquidBottomY
FlaskBounds(fill) ==
    LET f          == Max(0, Min(1000, fill))
        liquidTopY == -13000 + TDiv(TDiv(26000 * f, 1000) * 88, 100)
        height     == liquidTopY - liquidBottomY
        midY       == liquidBottomY + TDiv(height, 2)
    IN  [center |-> midY, height |-> height, bottom |-> liquidBottomY,
         radii  |-> columnRadii(steps, liquidBottomY, height, 400)]

\* the other Flask: bottom = steps[1].y, liquidHeight = fullHeight * f
FlaskFromBaseBounds(fill) ==
    LET f            == Max(0, Min(1000, fill))
        fullHeight   == stepsFromBase[Len(stepsFromBase)].y - stepsFromBase[2].y
        liquidHeight == TDiv(fullHeight * f, 1000)
        bottom       == stepsFromBase[2].y
        midY         == bottom + TDiv(liquidHeight, 2)
    IN  [center |-> midY, height |-> liquidHeight, bottom |-> bottom,
         radii  |-> columnRadii(stepsFromBase, bottom, liquidHeight, 100)]

FlaskInit ==
    /\ Parked
    /\ arg \in [flask : {"Flask", "FromBase"}, fill : Fills]
    /\ res = Idle

RenderFlask ==
    /\ res = Idle
    /\ res' = IF arg.flask = "Flask" THEN FlaskBounds(arg.fill)
              ELSE FlaskFromBaseBounds(arg.fill)
    /\ UNCHANGED <<arg, simVars>>

FlaskNext == RenderFlask

FlaskSpec == FlaskInit /\ [][FlaskNext]_vars

\* C27: for any fill value (clamped to [0, 1]) the LiquidBounds handed to
\* the particle groups has height >= 0, exactly 33 radius samples, all
\* >= 0, and center y = bottom + height / 2.
C27_BoundsWellFormed ==
    res # Idle =>
        /\ res.height >= 0
        /\ Len(res.radii) = 33
        /\ \A k \in DOMAIN res.radii : res.radii[k] >= 0
        /\ 2 * res.center = 2 * res.bottom + res.height

\* ---------------------------------------------------------------------
\* Foam after a respawn, with the bounds LabScene's Flask hands over and
\* frame times up to 1/30 s
\* ---------------------------------------------------------------------

\* dt of 1/60 s and 1/30 s, in ticks
RespawnDts == {1, 2}

\* <Flask fill={0.65}>: the profile is the Flask's bounds (b => <Foam
\* profile={b} />); the other profile is wide at the surface
RespawnProfiles ==
    { [bottom |-> FlaskBounds(650).bottom, height |-> FlaskBounds(650).height,
       radii  |-> FlaskBounds(650).radii],
      [bottom |-> liquidBottomY, height |-> 20000, radii |-> <<0, 5000, 9000, 9000>>] }

RespawnInit == profile \in RespawnProfiles /\ FirstRender /\ NoStore

RespawnNext ==
    \/ \E e \in EffectLists : SetEffects(e) /\ UNCHANGED <<ctx, calls>>
    \/ \E dt \in RespawnDts : Frame(dt)

RespawnSpec == RespawnInit /\ [][RespawnNext]_vars

\* the wall radius sampled at the liquid surface
SurfaceRadius == allowedRadiusAtLocal(profile, profile.height \div 2)

\* C28: with a positive surface radius, a foam particle recycled by one
\* enabled update is not recycled by the next one (dt in (0, 1/30]): that
\* update leaves it above the surface with size >= 0.003.
C28_ProgressAfterRespawn ==
    [][(IsFrame /\ last.fOn /\ foamOn /\ SurfaceRadius > 0) =>
         \A i \in last.fRec :
            /\ i \notin last'.fRec
            /\ foam'[i + 1].y > profile.height \div 2
            /\ foam'[i + 1].s >= minFoamSize]_vars

====
